---- MODULE Spec2Model ----
(***************************************************************************)
(* The component tree of dash/development/base_component.py: a Component   *)
(* (Node) with an optional id and a children slot; the id-indexed lookup,  *)
(* replacement and deletion of Component._get_set_or_delete, as reached    *)
(* through __getitem__, __setitem__ and __delitem__; traverse, __iter__    *)
(* and __len__; to_plotly_json; and Resources.get_inferred_resources of    *)
(* dash/resources.py, which walks a tree of Components.                    *)
(***************************************************************************)
EXTENDS Naturals, Sequences, FiniteSets

\* The trees of Init hold at most MaxObjects objects below the root:
\* Components, scalars and sequences.
MaxObjects == 4

\* getattr(x, 'id', None) of an object that has no id.
NoId == "None"
\* The ids that Components of the tree carry, and the ids asked for.
Ids == {"a", "b"}
NodeIds == Ids \cup {NoId}

(***************************************************************************)
(* Values.  Every Python object the tree holds is a record                 *)
(*   [tag, oid, id, children]                                              *)
(* tag is the runtime type ("Component", "str", "NoneType"), oid the       *)
(* object's identity, id what getattr(x, 'id', None) gives, and children   *)
(* the children slot [kind, items]: kind is the runtime type of the value  *)
(* of the slot ("NoneType" when it is None or was never set, "str" for a   *)
(* scalar, "Component", "list" or "tuple") and items what it holds.        *)
(***************************************************************************)
Absent == [kind |-> "NoneType", items |-> <<>>]

NoneItem == [tag |-> "NoneType", oid |-> <<0>>, id |-> NoId, children |-> Absent]

Str == [tag |-> "str", oid |-> <<0>>, id |-> NoId, children |-> Absent]

Node(oid, id, children) ==
    [tag |-> "Component", oid |-> oid, id |-> id, children |-> children]

IsComponent(x) == x.tag = "Component"

\* The children slot that holds value v after `self.children = v`.
SlotOf(v) ==
    IF v.tag = "NoneType" THEN Absent ELSE [kind |-> v.tag, items |-> <<v>>]

SeqKinds == {"list", "tuple"}

IsSeqLike(children) == children.kind \in SeqKinds

(***************************************************************************)
(* The trees the operations are applied to: every tree of at most          *)
(* MaxObjects objects below the root.                                      *)
(***************************************************************************)
RECURSIVE ChildrenOfSize(_)
RECURSIVE SeqsOfSize(_)

\* The entries that, with what they hold, are n objects.
ItemsOfSize(n) ==
    (IF n = 1 THEN {Str} ELSE {})
        \cup {Node(<<>>, i, c) : i \in NodeIds, c \in ChildrenOfSize(n - 1)}

\* The runs of entries that are n objects together.
SeqsOfSize(n) ==
    IF n = 0 THEN {<<>>}
    ELSE UNION {{<<it>> \o rest : it \in ItemsOfSize(m),
                                  rest \in SeqsOfSize(n - m)} : m \in 1..n}

\* The values of a children slot that are n objects.
ChildrenOfSize(n) ==
    IF n = 0 THEN {Absent}
    ELSE {SlotOf(x) : x \in ItemsOfSize(n)}
        \cup {[kind |-> sk, items |-> s] : sk \in SeqKinds, s \in SeqsOfSize(n - 1)}

\* Object identities: a Component built at position p of the tree is p.
RECURSIVE Label(_, _)
Label(x, oid) ==
    IF ~IsComponent(x) THEN x
    ELSE [x EXCEPT !.oid = oid,
                   !.children.items =
                       [i \in 1..Len(x.children.items) |->
                           Label(x.children.items[i], Append(oid, i))]]

Trees ==
    {Label(Node(<<>>, r, c), <<>>) :
        r \in NodeIds,
        c \in UNION {ChildrenOfSize(n) : n \in 0..MaxObjects}}

\* The Components handed to __setitem__: built by the caller, not part of
\* the tree (their identities start with 0, which no position does).
NewItems ==
    { Node(<<0, 1>>, "a", Absent),
      Node(<<0, 2>>, "b", Absent),
      Node(<<0, 3>>, NoId, Absent),
      Node(<<0, 4>>, "b", SlotOf(Node(<<0, 4, 1>>, "a", Absent))),
      Node(<<0, 5>>, "a", [kind |-> "list",
                           items |-> <<Node(<<0, 5, 1>>, "a", Absent)>>]) }

(***************************************************************************)
(* Component._get_set_or_delete                                            *)
(***************************************************************************)
\* What a call gives: self as the call leaves it, how the call ended
\* ("return", or the exception raised), the value returned and the
\* exception's argument.
Returned(self, v) == [node |-> self, out |-> "return", ret |-> v, arg |-> NoId]

Raised(self, exc, arg) == [node |-> self, out |-> exc, ret |-> NoneItem, arg |-> arg]

\* _check_if_has_indexable_children passes (it raises KeyError otherwise).
HasIndexableChildren(item) ==
    item.children.kind = "Component" \/ IsSeqLike(item.children)

\* (mutant) the assignment is to a local name: the slot keeps its value.
SetChildrenKeeps(self, new_item) == self

\* (mutant) the slot is given a one-entry list holding the new item.
SetChildrenAsList(self, new_item) ==
    [self EXCEPT !.children =
        IF new_item.tag = "NoneType" THEN Absent
        ELSE [kind |-> "list", items |-> <<new_item>>]]

\* self.children = new_item
SetChildren(self, new_item) == [self EXCEPT !.children = SlotOf(new_item)]

\* (mutant) the new item is appended instead of assigned at the index.
SetSeqItemAppends(self, i, new_item) ==
    IF self.children.kind = "tuple" THEN Raised(self, "TypeError", NoId)
    ELSE Returned([self EXCEPT !.children.items = Append(@, new_item)], NoneItem)

\* self.children[i] = new_item
SetSeqItem(self, i, new_item) ==
    IF self.children.kind = "tuple" THEN Raised(self, "TypeError", NoId)
    ELSE Returned([self EXCEPT !.children.items[i] = new_item], NoneItem)

\* (mutant) the index is off by one: the entry after the match is deleted.
DelSeqItemOffByOne(self, i) ==
    IF self.children.kind = "tuple" THEN Raised(self, "TypeError", NoId)
    ELSE Returned([self EXCEPT !.children.items =
                       SubSeq(@, 1, i) \o SubSeq(@, i + 2, Len(@))],
                  NoneItem)

\* (mutant) the entry is set to None instead of being deleted.
DelSeqItemSetsNone(self, i) ==
    IF self.children.kind = "tuple" THEN Raised(self, "TypeError", NoId)
    ELSE Returned([self EXCEPT !.children.items[i] = NoneItem], NoneItem)

\* (mutant) the entry is deleted and, the return missing, KeyError raised.
DelSeqItemThenRaise(self, i) ==
    IF self.children.kind = "tuple" THEN Raised(self, "TypeError", NoId)
    ELSE Raised([self EXCEPT !.children.items =
                     SubSeq(@, 1, i - 1) \o SubSeq(@, i + 1, Len(@))],
                "KeyError", NoId)

\* (mutant) the entry goes and what it held moves up into its place.
DelSeqItemKeepsChildren(self, i) ==
    IF self.children.kind = "tuple" THEN Raised(self, "TypeError", NoId)
    ELSE Returned([self EXCEPT !.children.items =
                       SubSeq(@, 1, i - 1) \o @[i].children.items
                           \o SubSeq(@, i + 1, Len(@))],
                  NoneItem)

\* del self.children[i]
DelSeqItem(self, i) ==
    IF self.children.kind = "tuple" THEN Raised(self, "TypeError", NoId)
    ELSE Returned([self EXCEPT !.children.items =
                       SubSeq(@, 1, i - 1) \o SubSeq(@, i + 1, Len(@))],
                  NoneItem)

\* The callee has acted on the object held at entry i of self's slot
\* (objects are shared by reference: what a call does to a descendant is
\* done to the tree, however the call ends).
WithEntry(self, i, x) == [self EXCEPT !.children.items[i] = x]

\* (mutant) no try/except around the recursive call.
ExceptNothing(r) == FALSE

\* (mutant) a bare except: every exception of the callee is caught.
ExceptAnything(r) == r.out # "return"

\* `except KeyError: pass` catches what the recursive call raised.
ExceptKeyError(r) == r.out = "KeyError"

\* getattr(item, 'id', None) == id
IdMatches(x, id) == x.id = id

\* (mutant) the end of the branch returns None instead of raising.
EndOfBranchReturnsNone(self, id) == Returned(self, NoneItem)

\* The end of our branch: raise KeyError(id)
EndOfBranch(self, id) == Raised(self, "KeyError", id)

RECURSIVE GetSetOrDelete(_, _, _, _)

\* (mutant) a get takes the Component it finds out of the slot, as
\* dict.pop does.
SingleBranchPops(self, id, operation, new_item) ==
    LET child == self.children.items[1] IN
    IF child.id # NoId /\ child.id = id
    THEN CASE operation = "get" -> Returned(SetChildren(self, NoneItem), child)
           [] operation = "set" -> Returned(SetChildren(self, new_item), NoneItem)
           [] operation = "delete" -> Returned(SetChildren(self, NoneItem), NoneItem)
    ELSE LET r == GetSetOrDelete(child, id, operation, new_item)
             self2 == WithEntry(self, 1, r.node)
         IN  IF ExceptKeyError(r)
             THEN EndOfBranch(self2, id)
             ELSE [r EXCEPT !.node = self2]

\* children is a Component
SingleBranch(self, id, operation, new_item) ==
    LET child == self.children.items[1] IN
    IF child.id # NoId /\ child.id = id
    THEN CASE operation = "get" -> Returned(self, child)
           [] operation = "set" -> Returned(SetChildren(self, new_item), NoneItem)
           [] operation = "delete" -> Returned(SetChildren(self, NoneItem), NoneItem)
    ELSE LET r == GetSetOrDelete(child, id, operation, new_item)
             self2 == WithEntry(self, 1, r.node)
         IN  IF ExceptKeyError(r)
             THEN EndOfBranch(self2, id)
             ELSE [r EXCEPT !.node = self2]

\* (mutant) the loop looks at every entry of the list before it digs into
\* any of them: breadth first.
RECURSIVE SeqDescend(_, _, _, _, _)
SeqDescend(self, i, id, operation, new_item) ==
    IF i > Len(self.children.items) THEN EndOfBranch(self, id)
    ELSE LET x == self.children.items[i] IN
         IF IsComponent(x)
         THEN LET r == GetSetOrDelete(x, id, operation, new_item)
                  self2 == WithEntry(self, i, r.node)
              IN  IF ExceptKeyError(r)
                  THEN SeqDescend(self2, i + 1, id, operation, new_item)
                  ELSE [r EXCEPT !.node = self2]
         ELSE SeqDescend(self, i + 1, id, operation, new_item)

SeqBranchBreadthFirst(self, i, id, operation, new_item) ==
    LET direct == {j \in i..Len(self.children.items) :
                       IdMatches(self.children.items[j], id)}
    IN  IF direct # {}
        THEN LET j == CHOOSE m \in direct : \A n \in direct : m <= n IN
             CASE operation = "get" -> Returned(self, self.children.items[j])
               [] operation = "set" -> SetSeqItem(self, j, new_item)
               [] operation = "delete" -> DelSeqItem(self, j)
        ELSE SeqDescend(self, i, id, operation, new_item)

\* children is like a list: the loop, from entry i on
RECURSIVE SeqBranch(_, _, _, _, _)
SeqBranch(self, i, id, operation, new_item) ==
    IF i > Len(self.children.items) THEN EndOfBranch(self, id)
    ELSE LET x == self.children.items[i] IN
         IF IdMatches(x, id)
         THEN CASE operation = "get" -> Returned(self, x)
                [] operation = "set" -> SetSeqItem(self, i, new_item)
                [] operation = "delete" -> DelSeqItem(self, i)
         ELSE IF IsComponent(x)
         THEN LET r == GetSetOrDelete(x, id, operation, new_item)
                  self2 == WithEntry(self, i, r.node)
              IN  IF ExceptKeyError(r)
                  THEN SeqBranch(self2, i + 1, id, operation, new_item)
                  ELSE [r EXCEPT !.node = self2]
         ELSE SeqBranch(self, i + 1, id, operation, new_item)

\* (mutant) the search starts at self: a get of self's own id returns self.
GetSetOrDeleteSelfFirst(self, id, operation, new_item) ==
    IF operation = "get" /\ self.id = id THEN Returned(self, self)
    ELSE IF ~HasIndexableChildren(self) THEN Raised(self, "KeyError", NoId)
    ELSE IF self.children.kind = "Component"
    THEN SingleBranch(self, id, operation, new_item)
    ELSE SeqBranch(self, 1, id, operation, new_item)

\* (mutant) a children value of a type that is not provided for is an error
\* of its own, which no except clause of the descent catches.
GetSetOrDeleteStrict(self, id, operation, new_item) ==
    IF self.children.kind = "dict" THEN Raised(self, "InvalidStructure", NoId)
    ELSE IF ~HasIndexableChildren(self) THEN Raised(self, "KeyError", NoId)
    ELSE IF self.children.kind = "Component"
    THEN SingleBranch(self, id, operation, new_item)
    ELSE SeqBranch(self, 1, id, operation, new_item)

GetSetOrDelete(self, id, operation, new_item) ==
    IF ~HasIndexableChildren(self) THEN Raised(self, "KeyError", NoId)
    ELSE IF self.children.kind = "Component"
    THEN SingleBranch(self, id, operation, new_item)
    ELSE SeqBranch(self, 1, id, operation, new_item)

(***************************************************************************)
(* Component.traverse_with_paths and Component.traverse.  A path is the    *)
(* sequence of its levels (the source joins them with "\n"); a level holds *)
(* the marker ("[*]", or "[idx]" with the 0-based index), the runtime type *)
(* name and the id of the item.                                            *)
(***************************************************************************)
Level(star, idx, x) == [star |-> star, idx |-> idx, type |-> x.tag, id |-> x.id]

\* (mutant) the paths of the callee are handed on as they come, without
\* the level of the entry they are below.
UnderFlat(lp, sub) == sub

\* "\n".join([list_path, p]), t for each p, t of the callee
Under(lp, sub) ==
    [k \in 1..Len(sub) |-> [path |-> <<lp>> \o sub[k].path, item |-> sub[k].item]]

RECURSIVE TraverseWithPaths(_)
RECURSIVE TraverseEntries(_, _)

\* children is a list of components: the loop, from entry n on
TraverseEntries(items, n) ==
    IF n > Len(items) THEN <<>>
    ELSE LET i == items[n]
             list_path == Level(FALSE, n - 1, i)
         IN  <<[path |-> <<list_path>>, item |-> i]>>
                 \o (IF IsComponent(i) THEN Under(list_path, TraverseWithPaths(i))
                     ELSE <<>>)
                 \o TraverseEntries(items, n + 1)

TraverseWithPaths(self) ==
    LET children == self.children IN
    IF children.kind = "Component"
    THEN LET c == children.items[1]
             children_path == Level(TRUE, 0, c)
         IN  <<[path |-> <<children_path>>, item |-> c]>>
                 \o Under(children_path, TraverseWithPaths(c))
    ELSE IF IsSeqLike(children) THEN TraverseEntries(children.items, 1)
    ELSE <<>>

Traverse(self) ==
    LET t == TraverseWithPaths(self) IN [k \in 1..Len(t) |-> t[k].item]

(***************************************************************************)
(* Component.__iter__ and Component.__len__                                *)
(***************************************************************************)
\* (mutant) the test for an id is left out: a Component without an id
\* yields None.
IterKeepsNone(self) ==
    LET yielding == SelectSeq(Traverse(self), IsComponent)
    IN  [k \in 1..Len(yielding) |-> yielding[k].id]

\* The ids in traverse() order.
Iter(self) ==
    LET t == Traverse(self)
        HasId(x) == IsComponent(x) /\ x.id # NoId
        yielding == SelectSeq(t, HasId)
    IN  [k \in 1..Len(yielding) |-> yielding[k].id]

RECURSIVE LenOf(_)
RECURSIVE LenOfEntries(_, _)

\* (mutant) the number of items that have ids, which the TODO of the source
\* thinks of.
LenOfCountsIds(self) == Len(Iter(self))

\* (mutant) the entries of the children slot only, not what is below them.
LenOfFlat(self) == Len(self.children.items)

\* for c in self.children: from entry n on
LenOfEntries(items, n) ==
    IF n > Len(items) THEN 0
    ELSE 1 + (IF IsComponent(items[n]) THEN LenOf(items[n]) ELSE 0)
           + LenOfEntries(items, n + 1)

LenOf(self) ==
    LET children == self.children IN
    IF children.kind = "NoneType" THEN 0
    ELSE IF children.kind = "Component" THEN 1 + LenOf(children.items[1])
    ELSE IF IsSeqLike(children) THEN LenOfEntries(children.items, 1)
    ELSE 1

(***************************************************************************)
(* The state: the root of the tree, and the last call made on it with the  *)
(* value it gave (val: what list(tree.traverse()), list(tree) or len(tree) *)
(* evaluated to), and the resource dicts of the component packages (dicts: *)
(* for each dict what its 'namespace' key holds).  stack and signal are    *)
(* the frames of a call that is followed step by step, registry and cache  *)
(* the class attributes of ComponentRegistry.                              *)
(***************************************************************************)
VARIABLES tree, pre, op, key, newItem, out, ret, val, dicts, stack, signal,
          registry, cache

vars == <<tree, pre, op, key, newItem, out, ret, val, dicts, stack, signal,
          registry, cache>>

\* What the calls on a tree leave alone: the frames of a call in progress
\* and the registry of component packages.
others == <<stack, signal, registry, cache>>

\* No call is in progress and no package is loaded.
Idle ==
    /\ stack = <<>>
    /\ signal = "none"
    /\ registry = {}
    /\ cache = <<>>

\* The tree of the documentation:
\* Root(children=[A(id='a'), 'text', B(id='b', children=[C(id='c')])]).
Scenario ==
    Node(<<>>, NoId,
         [kind |-> "list",
          items |-> << Node(<<1>>, "a", Absent),
                       Str,
                       Node(<<3>>, "b",
                            [kind |-> "list",
                             items |-> <<Node(<<3, 1>>, "c", Absent)>>]) >>])

Init ==
    /\ tree \in Trees \cup {Scenario}
    /\ pre = tree
    /\ op = "init"
    /\ key = NoId
    /\ newItem = NoneItem
    /\ out = "init"
    /\ ret = NoneItem
    /\ val = <<>>
    /\ dicts = <<>>
    /\ Idle

Call(operation, id, new_item) ==
    LET r == GetSetOrDelete(tree, id, operation, new_item) IN
    /\ op = "init"
    /\ pre' = tree
    /\ tree' = r.node
    /\ op' = operation
    /\ key' = id
    /\ newItem' = new_item
    /\ out' = r.out
    /\ ret' = r.ret
    /\ val' = <<>>
    /\ UNCHANGED dicts
    /\ UNCHANGED others

\* tree[id]
GetItem == \E id \in Ids : Call("get", id, NoneItem)

\* tree[id] = new_item
SetItem == \E id \in Ids : \E new_item \in NewItems : Call("set", id, new_item)

\* del tree[id]
DelItem == \E id \in Ids : Call("delete", id, NoneItem)

\* A call that hands back a value and assigns nothing.
Evaluate(operation, v) ==
    /\ op = "init"
    /\ pre' = tree
    /\ op' = operation
    /\ out' = "return"
    /\ val' = v
    /\ UNCHANGED <<tree, key, newItem, ret, dicts>>
    /\ UNCHANGED others

\* list(tree.traverse())
TraverseTree == Evaluate("traverse", Traverse(tree))

\* list(tree.traverse_with_paths())
TraverseWithPathsTree == Evaluate("traverse_with_paths", TraverseWithPaths(tree))

\* list(tree)
IterTree == Evaluate("iter", Iter(tree))

\* len(tree)
LenTree == Evaluate("len", LenOf(tree))

Next ==
    \/ GetItem \/ SetItem \/ DelItem
    \/ TraverseTree \/ TraverseWithPathsTree \/ IterTree \/ LenTree

Spec == Init /\ [][Next]_vars

(***************************************************************************)
(* Component.to_plotly_json.  The Component that is serialized is a record *)
(*   [tag, oid, _type, _namespace, _prop_names, _valid_wildcard_attributes,*)
(*    dict]                                                                *)
(* dict is the instance's __dict__: the attributes set on it by __init__   *)
(* or by setattr, each with its value (without the attributes in which a   *)
(* generated class keeps its own description, such as _prop_names: none    *)
(* of them starts with a wildcard prefix).                                 *)
(***************************************************************************)
\* Component.UNDEFINED
Undefined == [tag |-> "_UNDEFINED", oid |-> <<0>>, id |-> NoId, children |-> Absent]

\* getattr(self, p) of an attribute of the class: the method bound to self.
BoundMethod == [tag |-> "method", oid |-> <<0>>, id |-> NoId, children |-> Absent]

\* The attributes every Component has from its class and from
\* collections.MutableMapping.
ClassAttrs ==
    {"keys", "items", "values", "get", "pop", "popitem", "clear", "update",
     "setdefault", "traverse", "traverse_with_paths", "to_plotly_json",
     "UNDEFINED", "REQUIRED"}

\* k.startswith(w)
StartsWith(k, w) == Len(k) >= Len(w) /\ SubSeq(k, 1, Len(w)) = w

\* any(k.startswith(w) for w in self._valid_wildcard_attributes)
IsWildcard(self, k) ==
    \E n \in 1..Len(self._valid_wildcard_attributes) :
        StartsWith(k, self._valid_wildcard_attributes[n])

\* hasattr(self, p)
HasAttr(self, p) == p \in DOMAIN self.dict \/ p \in ClassAttrs

\* getattr(self, p)
GetAttr(self, p) == IF p \in DOMAIN self.dict THEN self.dict[p] ELSE BoundMethod

\* (mutant) a Component among the values is serialized in its turn: the
\* mapping takes its place.
ToPlotlyJsonDeep(self) ==
    LET normal == {self._prop_names[n] : n \in 1..Len(self._prop_names)}
        names == {p \in normal : HasAttr(self, p)}
                     \cup {k \in DOMAIN self.dict : IsWildcard(self, k)}
        AsJson(v) == IF IsComponent(v) THEN [v EXCEPT !.tag = "dict"] ELSE v
    IN  [props |-> [k \in names |-> AsJson(GetAttr(self, k))],
         type |-> self._type,
         namespace |-> self._namespace]

ToPlotlyJson(self) ==
    LET normal == {self._prop_names[n] : n \in 1..Len(self._prop_names)}
        names == {p \in normal : HasAttr(self, p)}
                     \cup {k \in DOMAIN self.dict : IsWildcard(self, k)}
    IN  [props |-> [k \in names |-> GetAttr(self, k)],
         type |-> self._type,
         namespace |-> self._namespace]

\* The attribute names of the Components that are serialized, and the
\* values they are given: a scalar, Component.UNDEFINED, and a Component
\* that has a child of its own.
AttrNames == {"id", "children", "foo", "values", "data-x", "database"}

Nested == Node(<<1>>, "a", SlotOf(Node(<<1, 1>>, "b", Absent)))

AttrValues == {Str, Undefined, Nested}

PropNameLists == { <<"id", "children">>, <<"id", "children", "foo", "values">> }

WildcardLists == { <<>>, <<"data-", "aria-">> }

\* The class of a Component: what a generated __init__ sets before it
\* calls Component.__init__.
Classes ==
    {[tag |-> "Component", oid |-> <<>>, _type |-> "Div", _namespace |-> "html",
      _prop_names |-> pn, _valid_wildcard_attributes |-> wc, dict |-> <<>>] :
        pn \in PropNameLists, wc \in WildcardLists}

\* setattr(self, k, v)
SetAttrOf(self, k, v) ==
    [self EXCEPT !.dict = [n \in DOMAIN self.dict \cup {k} |->
                               IF n = k THEN v ELSE self.dict[n]]]

\* Component.__init__(**kwargs) returns (it raises TypeError for a keyword
\* that is neither a property nor a wildcard attribute).
InitAccepts(self, kwargs) ==
    \A k \in DOMAIN kwargs :
        \/ \E n \in 1..Len(self._prop_names) : self._prop_names[n] = k
        \/ IsWildcard(self, k)

\* The keyword arguments a Component is built with.
Kwargs == UNION {[names -> AttrValues] : names \in SUBSET AttrNames}

\* The Components that Component.__init__ has built.
Constructed ==
    UNION {{[c EXCEPT !.dict = kwargs] :
                kwargs \in {kw \in Kwargs : InitAccepts(c, kw)}} : c \in Classes}

InitJson ==
    /\ tree \in Constructed
    /\ pre = tree
    /\ op = "init"
    /\ key = NoId
    /\ newItem = NoneItem
    /\ out = "init"
    /\ ret = NoneItem
    /\ val = <<>>
    /\ dicts = <<>>
    /\ Idle

\* setattr(tree, k, v)
SetAttr ==
    \E k \in AttrNames : \E v \in AttrValues :
        /\ op = "init"
        /\ tree' = SetAttrOf(tree, k, v)
        /\ pre' = tree'
        /\ UNCHANGED <<op, key, newItem, out, ret, val, dicts>>
        /\ UNCHANGED others

\* tree.to_plotly_json()
ToPlotlyJsonCall ==
    /\ op = "init"
    /\ pre' = tree
    /\ op' = "to_plotly_json"
    /\ out' = "return"
    /\ val' = ToPlotlyJson(tree)
    /\ UNCHANGED <<tree, key, newItem, ret, dicts>>
    /\ UNCHANGED others

NextJson == SetAttr \/ ToPlotlyJsonCall

SpecJson == InitJson /\ [][NextJson]_vars

(***************************************************************************)
(* Resources.get_inferred_resources (dash/resources.py).  A Component of   *)
(* the layout has its package's _namespace and the attributes of its       *)
(* class (attrs: _js_dist, _css_dist or neither), each a list of resource  *)
(* dicts.  A dict is named by its identity; dicts gives for each what its  *)
(* 'namespace' key holds (NoTag: it has no such key).                      *)
(***************************************************************************)
\* The layouts hold at most MaxLayoutObjects objects below the root.
MaxLayoutObjects == 3

NoTag == "(no key)"

\* The resource dicts of the packages.
Rids == {1, 2, 3, 4, 5}

\* What a class of a package gives its Components.
ComponentClasses ==
    { [_namespace |-> "html",
       attrs |-> [n \in {"_js_dist", "_css_dist"} |->
                      IF n = "_js_dist" THEN <<1, 2>> ELSE <<3>>]],
      [_namespace |-> "html", attrs |-> <<>>],
      [_namespace |-> "dcc", attrs |-> [n \in {"_js_dist"} |-> <<4>>]],
      [_namespace |-> "dcc",
       attrs |-> [n \in {"_js_dist", "_css_dist"} |->
                      IF n = "_js_dist" THEN <<>> ELSE <<5>>]] }

\* The Components of a tree, the root among them, by identity.
OidsOf(root) ==
    LET t == Traverse(root) IN
    {<<>>} \cup {t[k].oid : k \in {j \in 1..Len(t) : IsComponent(t[j])}}

\* The tree with each Component an instance of the class cls gives it.
RECURSIVE OfClasses(_, _)
OfClasses(x, cls) ==
    IF ~IsComponent(x) THEN x
    ELSE [tag |-> x.tag, oid |-> x.oid, id |-> x.id,
          children |-> [kind |-> x.children.kind,
                        items |-> [i \in 1..Len(x.children.items) |->
                                       OfClasses(x.children.items[i], cls)]],
          _namespace |-> cls[x.oid]._namespace,
          attrs |-> cls[x.oid].attrs]

\* The trees of at most MaxLayoutObjects objects below the root (ids play
\* no part here: no Component has one), with every choice of classes.
Layouts ==
    LET shapes == {t \in {Label(Node(<<>>, NoId, c), <<>>) :
                             c \in UNION {ChildrenOfSize(n) : n \in 0..MaxLayoutObjects}} :
                       Iter(t) = <<>>}
    IN  UNION {{OfClasses(t, cls) : cls \in [OidsOf(t) -> ComponentClasses]} :
                  t \in shapes}

\* (mutant) the test for a namespace seen before is left out.
SeenNamespaceNever(component, namespaces) == FALSE

\* component._namespace in namespaces
SeenNamespace(component, namespaces) ==
    \E n \in 1..Len(namespaces) : namespaces[n] = component._namespace

\* for r in component_resources: r['namespace'] = component._namespace
Tagged(heap, component_resources, namespace) ==
    [r \in DOMAIN heap |->
        IF \E n \in 1..Len(component_resources) : component_resources[n] = r
        THEN namespace ELSE heap[r]]

\* (mutant) a namespace is marked as seen only when the Component has the
\* resource attribute.
ExtractResourceWhenDeclared(acc, component, resource_name) ==
    IF /\ IsComponent(component)
       /\ ~SeenNamespace(component, acc.namespaces)
       /\ resource_name \in DOMAIN component.attrs
    THEN LET component_resources == component.attrs[resource_name] IN
         [namespaces |-> Append(acc.namespaces, component._namespace),
          resources |-> acc.resources \o component_resources,
          dicts |-> Tagged(acc.dicts, component_resources, component._namespace)]
    ELSE acc

\* extract_resource_from_component(component): acc holds namespaces and
\* resources, the lists of the enclosing call, and the dicts.
ExtractResourceFromComponent(acc, component, resource_name) ==
    IF IsComponent(component) /\ ~SeenNamespace(component, acc.namespaces)
    THEN LET seen == Append(acc.namespaces, component._namespace) IN
         IF resource_name \in DOMAIN component.attrs
         THEN LET component_resources == component.attrs[resource_name] IN
              [namespaces |-> seen,
               resources |-> acc.resources \o component_resources,
               dicts |-> Tagged(acc.dicts, component_resources,
                                component._namespace)]
         ELSE [acc EXCEPT !.namespaces = seen]
    ELSE acc

\* for t in layout.traverse(): from the n-th item on
RECURSIVE ExtractFrom(_, _, _, _)
ExtractFrom(acc, items, n, resource_name) ==
    IF n > Len(items) THEN acc
    ELSE ExtractFrom(ExtractResourceFromComponent(acc, items[n], resource_name),
                     items, n + 1, resource_name)

GetInferredResources(layout, resource_name, heap) ==
    LET start == [namespaces |-> <<>>, resources |-> <<>>, dicts |-> heap]
        first == ExtractResourceFromComponent(start, layout, resource_name)
    IN  ExtractFrom(first, Traverse(layout), 1, resource_name)

InitResources ==
    /\ tree \in Layouts
    /\ pre = tree
    /\ op = "init"
    /\ key = NoId
    /\ newItem = NoneItem
    /\ out = "init"
    /\ ret = NoneItem
    /\ val = <<>>
    /\ dicts = [r \in Rids |-> NoTag]
    /\ Idle

\* Resources(resource_name, tree).get_inferred_resources()
InferredResources(operation, resource_name) ==
    LET r == GetInferredResources(tree, resource_name, dicts) IN
    /\ op = "init"
    /\ pre' = tree
    /\ op' = operation
    /\ key' = resource_name
    /\ out' = "return"
    /\ val' = r.resources
    /\ dicts' = r.dicts
    /\ UNCHANGED others
    /\ UNCHANGED <<tree, newItem, ret>>

\* Scripts(tree).get_inferred_scripts()
GetInferredScripts == InferredResources("get_inferred_scripts", "_js_dist")

\* Css(tree).get_inferred_css_dist()
GetInferredCssDist == InferredResources("get_inferred_css_dist", "_css_dist")

NextResources == GetInferredScripts \/ GetInferredCssDist

SpecResources == InitResources /\ [][NextResources]_vars

(***************************************************************************)
(* Trees that are not well formed: the children of some Components is a    *)
(* value of a type the class does not provide for (a dict, say), which is  *)
(* neither None, a scalar, a Component nor a sequence.                     *)
(***************************************************************************)
Unsupported == [kind |-> "dict", items |-> <<>>]

\* x with a dict wherever children is a single scalar.
RECURSIVE WithDicts(_)
WithDicts(x) ==
    IF ~IsComponent(x) THEN x
    ELSE IF x.children.kind = "str" THEN [x EXCEPT !.children = Unsupported]
    ELSE [x EXCEPT !.children.items =
              [i \in 1..Len(x.children.items) |-> WithDicts(x.children.items[i])]]

InitShapes ==
    /\ tree \in Trees \cup {WithDicts(t) : t \in Trees}
    /\ pre = tree
    /\ op = "init"
    /\ key = NoId
    /\ newItem = NoneItem
    /\ out = "init"
    /\ ret = NoneItem
    /\ val = <<>>
    /\ dicts = <<>>
    /\ Idle

NextShapes == GetItem \/ SetItem \/ DelItem

SpecShapes == InitShapes /\ [][NextShapes]_vars

(***************************************************************************)
(* The calls followed step by step.  Each call of _get_set_or_delete,      *)
(* traverse_with_paths (a generator, consumed to its end) or __len__ on a  *)
(* Component is a frame of the stack:                                      *)
(*   [at, i, n]                                                            *)
(* at is where the Component sits (the entry numbers from the root down),  *)
(* i the place in the function (0: at its start; from 1 on: in the loop or *)
(* waiting for the call it made on entry i), n the local variable length   *)
(* of __len__.  signal is what the frame that ended last handed to its     *)
(* caller: "return" (for a generator: it is exhausted), or the exception   *)
(* raised; "none" while the top frame runs on its own.                     *)
(***************************************************************************)
\* The trees of the calls followed step by step hold at most MaxStepObjects
\* objects below the root.
MaxStepObjects == 3

StepTrees ==
    {Label(Node(<<>>, NoId, c), <<>>) :
        c \in UNION {ChildrenOfSize(n) : n \in 0..MaxStepObjects}}

\* The Components handed to __setitem__ in these calls.
StepNewItems == {Node(<<0, 1>>, "a", Absent), Node(<<0, 3>>, NoId, Absent)}

\* The object at place p below x.
RECURSIVE At(_, _)
At(x, p) == IF p = <<>> THEN x ELSE At(x.children.items[Head(p)], Tail(p))

\* x with the object at place p as the callee left it.
RECURSIVE PutAt(_, _, _)
PutAt(x, p, y) ==
    IF p = <<>> THEN y
    ELSE [x EXCEPT !.children.items[Head(p)] = PutAt(@, Tail(p), y)]

Frame(p) == [at |-> p, i |-> 0, n |-> 0]

\* (mutant) the loop does not move on to the next entry.
NextIndexStays(i) == i

\* for i, item in enumerate(self.children): the next entry
NextIndex(i) == i + 1

\* What a step leaves: the tree, the stack, the signal, and the values
\* returned so far.
Stepped(t, st, sig, r, v) ==
    [tree |-> t, stack |-> st, signal |-> sig, ret |-> r, val |-> v]

\* One step of the _get_set_or_delete call on top of the stack.
SearchStep ==
    LET f == stack[Len(stack)]
        rest == SubSeq(stack, 1, Len(stack) - 1)
        self == At(tree, f.at)
        Pop(t, sig, r) == Stepped(t, rest, sig, r, val)
        Goto(i) == Stepped(tree, Append(rest, [f EXCEPT !.i = i]), "none", ret, val)
        Enter(i) == Stepped(tree, rest \o <<[f EXCEPT !.i = i], Frame(Append(f.at, i))>>,
                            "none", ret, val)
    IN  IF signal # "none"
        THEN \* the call made on entry i has ended
             IF self.children.kind = "Component"
             THEN Pop(tree, signal, ret)
             ELSE IF signal = "KeyError" THEN Goto(NextIndex(f.i))
             ELSE Pop(tree, signal, ret)
        ELSE IF f.i = 0
        THEN IF ~HasIndexableChildren(self) THEN Pop(tree, "KeyError", ret)
             ELSE IF self.children.kind = "Component"
             THEN LET child == self.children.items[1] IN
                  IF child.id # NoId /\ child.id = key
                  THEN CASE op = "get" -> Pop(tree, "return", child)
                         [] op = "set" ->
                              Pop(PutAt(tree, f.at, SetChildren(self, newItem)),
                                  "return", ret)
                         [] op = "delete" ->
                              Pop(PutAt(tree, f.at, SetChildren(self, NoneItem)),
                                  "return", ret)
                  ELSE Enter(1)
             ELSE Goto(1)
        ELSE IF f.i > Len(self.children.items) THEN Pop(tree, "KeyError", ret)
        ELSE LET x == self.children.items[f.i] IN
             IF IdMatches(x, key)
             THEN LET r == CASE op = "get" -> Returned(self, x)
                             [] op = "set" -> SetSeqItem(self, f.i, newItem)
                             [] op = "delete" -> DelSeqItem(self, f.i)
                  IN  Pop(PutAt(tree, f.at, r.node), r.out,
                          IF op = "get" THEN r.ret ELSE ret)
             ELSE IF IsComponent(x) THEN Enter(f.i)
             ELSE Goto(NextIndex(f.i))

\* What the generator yields for item x: the item (traverse), or its id
\* when it is a Component that has one (__iter__).
Yielded(x) ==
    IF op = "traverse" THEN Append(val, x)
    ELSE IF IsComponent(x) /\ x.id # NoId THEN Append(val, x.id)
    ELSE val

\* One step of the traverse_with_paths generator on top of the stack.
TraverseStep ==
    LET f == stack[Len(stack)]
        rest == SubSeq(stack, 1, Len(stack) - 1)
        self == At(tree, f.at)
        Pop == Stepped(tree, rest, "return", ret, val)
        Goto(i) == Stepped(tree, Append(rest, [f EXCEPT !.i = i]), "none", ret, val)
        Enter(i, v) ==
            Stepped(tree, rest \o <<[f EXCEPT !.i = i], Frame(Append(f.at, i))>>,
                    "none", ret, v)
    IN  IF signal # "none"
        THEN IF self.children.kind = "Component" THEN Pop
             ELSE Goto(NextIndex(f.i))
        ELSE IF f.i = 0
        THEN IF self.children.kind = "Component"
             THEN Enter(1, Yielded(self.children.items[1]))
             ELSE IF IsSeqLike(self.children) THEN Goto(1)
             ELSE Pop
        ELSE IF f.i > Len(self.children.items) THEN Pop
        ELSE LET x == self.children.items[f.i] IN
             IF IsComponent(x) THEN Enter(f.i, Yielded(x))
             ELSE Stepped(tree, Append(rest, [f EXCEPT !.i = NextIndex(f.i)]),
                          "none", ret, Yielded(x))

\* One step of the __len__ call on top of the stack (val holds the length
\* that the call that ended last returned, as its one entry).
LenStep ==
    LET f == stack[Len(stack)]
        rest == SubSeq(stack, 1, Len(stack) - 1)
        self == At(tree, f.at)
        Pop(length) == Stepped(tree, rest, "return", ret, <<length>>)
        Goto(i, length) ==
            Stepped(tree, Append(rest, [f EXCEPT !.i = i, !.n = length]),
                    "none", ret, val)
        Enter(i, length) ==
            Stepped(tree,
                    rest \o <<[f EXCEPT !.i = i, !.n = length], Frame(Append(f.at, i))>>,
                    "none", ret, val)
    IN  IF signal # "none"
        THEN IF self.children.kind = "Component" THEN Pop(f.n + val[1])
             ELSE Goto(NextIndex(f.i), f.n + val[1])
        ELSE IF f.i = 0
        THEN IF self.children.kind = "NoneType" THEN Pop(0)
             ELSE IF self.children.kind = "Component" THEN Enter(1, 1)
             ELSE IF IsSeqLike(self.children) THEN Goto(1, 0)
             ELSE Pop(1)
        ELSE IF f.i > Len(self.children.items) THEN Pop(f.n)
        ELSE IF IsComponent(self.children.items[f.i]) THEN Enter(f.i, f.n + 1)
        ELSE Goto(NextIndex(f.i), f.n + 1)

InitSteps ==
    /\ tree \in StepTrees
    /\ pre = tree
    /\ op = "init"
    /\ key = NoId
    /\ newItem = NoneItem
    /\ out = "init"
    /\ ret = NoneItem
    /\ val = <<>>
    /\ dicts = <<>>
    /\ Idle

\* The call is made: its frame is the only one.
Begin(operation, id, new_item) ==
    /\ op = "init"
    /\ op' = operation
    /\ key' = id
    /\ newItem' = new_item
    /\ pre' = tree
    /\ stack' = <<Frame(<<>>)>>
    /\ UNCHANGED <<tree, out, ret, val, dicts, signal, registry, cache>>

BeginGet == \E id \in Ids : Begin("get", id, NoneItem)

BeginSet == \E id \in Ids : \E new_item \in StepNewItems : Begin("set", id, new_item)

BeginDelete == \E id \in Ids : Begin("delete", id, NoneItem)

BeginTraverse == Begin("traverse", NoId, NoneItem)

BeginIter == Begin("iter", NoId, NoneItem)

BeginLen == Begin("len", NoId, NoneItem)

\* The step r is taken; the call has ended when its first frame has.
Take(r) ==
    /\ tree' = r.tree
    /\ stack' = r.stack
    /\ signal' = r.signal
    /\ ret' = r.ret
    /\ val' = r.val
    /\ out' = IF r.stack = <<>> THEN r.signal ELSE out
    /\ UNCHANGED <<pre, op, key, newItem, dicts, registry, cache>>

StepSearch == op \in {"get", "set", "delete"} /\ stack # <<>> /\ Take(SearchStep)

StepTraverse == op \in {"traverse", "iter"} /\ stack # <<>> /\ Take(TraverseStep)

StepLen == op = "len" /\ stack # <<>> /\ Take(LenStep)

NextSteps ==
    \/ BeginGet \/ BeginSet \/ BeginDelete \/ BeginTraverse \/ BeginIter \/ BeginLen
    \/ StepSearch \/ StepTraverse \/ StepLen

\* The interpreter runs the call on: a step that can be taken is taken.
SpecSteps == InitSteps /\ [][NextSteps]_vars /\ WF_vars(NextSteps)

(***************************************************************************)
(* ComponentRegistry and ComponentMeta.  registry is the class attribute   *)
(* of that name; cache is __dist_cache, which gives for a resource name    *)
(* the list kept for it (0: no entry); the lists get_resources has built   *)
(* are dicts[1], dicts[2], ... in the order they were built, and a list is *)
(* named by its place (val holds the list returned, as its one entry).     *)
(***************************************************************************)
\* get_resources builds at most MaxLists lists.
MaxLists == 3

ResourceNames == {"_js_dist", "_css_dist"}

\* The modules of sys.modules with the resource lists they have.
ModuleAttrs(module_name) ==
    CASE module_name = "dash_html_components" ->
             [n \in {"_js_dist"} |-> <<"html.js">>]
      [] module_name = "dash_core_components" ->
             [n \in {"_js_dist", "_css_dist"} |->
                 IF n = "_js_dist" THEN <<"dcc.js">> ELSE <<"dcc.css">>]
      [] OTHER -> <<>>

\* The classes that are defined: name and attributes['__module__'], the
\* dotted name as the sequence of its parts.
ClassDefinitions ==
    { [name |-> "Component", module |-> <<"dash", "development", "base_component">>],
      [name |-> "Div", module |-> <<"dash_html_components", "Div">>],
      [name |-> "Graph", module |-> <<"dash_core_components", "Graph">>],
      [name |-> "DataTable", module |-> <<"dash_table">>],
      [name |-> "Loaded", module |-> <<"builtins">>] }

\* getattr(module, resource_name, [])
ModuleResources(module_name, resource_name) ==
    IF resource_name \in DOMAIN ModuleAttrs(module_name)
    THEN ModuleAttrs(module_name)[resource_name]
    ELSE <<>>

\* The orders in which `for module_name in cls.registry` may give the set.
Orders(S) ==
    {o \in [1..Cardinality(S) -> S] : \A i, j \in 1..Cardinality(S) : o[i] = o[j] => i = j}

\* resources.extend(...) for the modules of order, from the n-th on
RECURSIVE Extended(_, _, _)
Extended(order, n, resource_name) ==
    IF n > Len(order) THEN <<>>
    ELSE ModuleResources(order[n], resource_name)
             \o Extended(order, n + 1, resource_name)

\* (mutant) the test is `cached is not None`: an empty list is returned too.
CachedIsNotNone(resource_name) == cache[resource_name] # 0

\* cached = cls.__dist_cache.get(resource_name); if cached:
Cached(resource_name) ==
    cache[resource_name] # 0 /\ dicts[cache[resource_name]] # <<>>

InitRegistry ==
    /\ tree = NoneItem
    /\ pre = NoneItem
    /\ op = "init"
    /\ key = NoId
    /\ newItem = NoneItem
    /\ out = "init"
    /\ ret = NoneItem
    /\ val = <<>>
    /\ dicts = <<>>
    /\ stack = <<>>
    /\ signal = "none"
    /\ registry = {}
    /\ cache = [n \in ResourceNames |-> 0]

\* ComponentMeta.__new__(mcs, name, bases, attributes): a class is defined.
DefineClass ==
    \E c \in ClassDefinitions :
        LET module == Head(c.module) IN
        /\ op' = "class"
        /\ key' = c.name
        /\ registry' = IF c.name = "Component" \/ module = "builtins"
                       THEN registry
                       ELSE registry \cup {module}
        /\ UNCHANGED <<tree, pre, newItem, out, ret, val, dicts, stack, signal, cache>>

\* ComponentRegistry.get_resources(resource_name)
GetResources ==
    \E resource_name \in ResourceNames :
        /\ op' = "get_resources"
        /\ key' = resource_name
        /\ IF Cached(resource_name)
           THEN /\ val' = <<cache[resource_name]>>
                /\ UNCHANGED <<dicts, cache>>
           ELSE /\ Len(dicts) < MaxLists
                /\ \E order \in Orders(registry) :
                       dicts' = Append(dicts, Extended(order, 1, resource_name))
                /\ cache' = [cache EXCEPT ![resource_name] = Len(dicts) + 1]
                /\ val' = <<Len(dicts) + 1>>
        /\ UNCHANGED <<tree, pre, newItem, out, ret, stack, signal, registry>>

NextRegistry == DefineClass \/ GetResources

SpecRegistry == InitRegistry /\ [][NextRegistry]_vars

(***************************************************************************)
(* What the properties speak of: the descendants of a root in traverse()   *)
(* order, the ones that carry an id, and a tree with one entry replaced or *)
(* removed.                                                                *)
(***************************************************************************)
Ops == {"get", "set", "delete"}

\* The places in traverse() order of the descendant Components carrying k.
Carriers(root, k) ==
    LET t == Traverse(root) IN
    {n \in 1..Len(t) : IsComponent(t[n]) /\ t[n].id = k}

\* The first of them.
FirstCarrier(root, k) ==
    CHOOSE n \in Carriers(root, k) : \A m \in Carriers(root, k) : n <= m

PathOf(root, n) == TraverseWithPaths(root)[n].path

\* The children slot in which the entry at path p sits.
RECURSIVE SlotAt(_, _)
SlotAt(root, p) ==
    IF Len(p) = 1 THEN root.children
    ELSE SlotAt(root.children.items[Head(p).idx + 1], Tail(p))

\* root with the entry at path p holding x instead.
RECURSIVE ReplaceAt(_, _, _)
ReplaceAt(root, p, x) ==
    LET j == Head(p).idx + 1 IN
    IF Len(p) = 1
    THEN [root EXCEPT !.children =
              [kind |-> @.kind,
               items |-> [m \in 1..Len(@.items) |-> IF m = j THEN x ELSE @.items[m]]]]
    ELSE [root EXCEPT !.children.items[j] = ReplaceAt(@, Tail(p), x)]

\* root without the entry at path p: a single-Component slot becomes None, a
\* sequence loses the entry and the later entries move down by one.
RECURSIVE RemoveAt(_, _)
RemoveAt(root, p) ==
    LET j == Head(p).idx + 1 IN
    IF Len(p) = 1
    THEN [root EXCEPT !.children =
              IF Head(p).star THEN Absent
              ELSE [kind |-> @.kind,
                    items |-> [m \in 1..(Len(@.items) - 1) |->
                                  IF m < j THEN @.items[m] ELSE @.items[m + 1]]]]
    ELSE [root EXCEPT !.children.items[j] = RemoveAt(@, Tail(p))]

\* tree[key], asked of the tree as the last call left it.
GetAfter == GetSetOrDelete(tree, key, "get", NoneItem)

(***************************************************************************)
(* C1: when exactly one descendant Component of the tree carries id k,     *)
(* at whatever depth and after whatever siblings, tree[k] returns that     *)
(* Component itself (the same object).                                     *)
(***************************************************************************)
C1_GetReturnsTheUniqueCarrier ==
    (op = "get" /\ Cardinality(Carriers(pre, key)) = 1)
        => /\ out = "return"
           /\ ret = Traverse(pre)[FirstCarrier(pre, key)]
           /\ ret.oid = Traverse(pre)[FirstCarrier(pre, key)].oid

\* The carrier is found after an earlier sibling whose subtree, which does
\* not hold k, was searched first.
C1_Witness ==
    /\ op = "get"
    /\ out = "return"
    /\ Cardinality(Carriers(pre, key)) = 1
    /\ LET n == FirstCarrier(pre, key) IN
           /\ n >= 3
           /\ Len(PathOf(pre, n)) = 1
           /\ Len(PathOf(pre, n - 1)) = 2

(***************************************************************************)
(* C2: when no descendant Component carries the id k asked for, get, set   *)
(* and delete each raise KeyError and none returns a value; so they do     *)
(* when the root's children is None, a scalar or an empty sequence.        *)
(***************************************************************************)
C2_AbsentIdRaisesKeyError ==
    (op \in Ops /\ Carriers(pre, key) = {}) => out = "KeyError"

\* A set on a root whose children is an empty sequence.
C2_Witness ==
    /\ op = "set"
    /\ IsSeqLike(pre.children)
    /\ pre.children.items = <<>>
    /\ out = "KeyError"

(***************************************************************************)
(* C3: a set or a delete that raises, whatever it raises, leaves the whole *)
(* tree as it was before the call.                                         *)
(***************************************************************************)
C3_FailedMutationLeavesTree ==
    (op \in {"set", "delete"} /\ out # "return") => tree = pre

\* A set that found its entry two levels down, in a tuple, and was refused.
C3_Witness ==
    /\ op = "set"
    /\ out = "TypeError"
    /\ Carriers(pre, key) # {}
    /\ Len(PathOf(pre, FirstCarrier(pre, key))) = 2

(***************************************************************************)
(* C4 as stated: on every tree and for every id k, after a del tree[k]     *)
(* that succeeded, tree[k] raises KeyError.                                *)
(***************************************************************************)
C4_DeleteThenGetFails ==
    (op = "delete" /\ out = "return") => GetAfter.out = "KeyError"

(***************************************************************************)
(* C4 as amended: when exactly one descendant Component carries k, after a *)
(* del tree[k] that succeeded, tree[k] raises KeyError.                    *)
(***************************************************************************)
C4_DeleteThenGetFailsWhenUnique ==
    (op = "delete" /\ out = "return" /\ Cardinality(Carriers(pre, key)) = 1)
        => GetAfter.out = "KeyError"

\* The only carrier, two levels down, was deleted.
C4_Witness ==
    /\ op = "delete"
    /\ out = "return"
    /\ Cardinality(Carriers(pre, key)) = 1
    /\ Len(PathOf(pre, FirstCarrier(pre, key))) = 2
    /\ GetAfter.out = "KeyError"

(***************************************************************************)
(* C5: after a tree[k] = newNode that succeeded, with newNode.id = k,      *)
(* tree[k] returns newNode itself.                                         *)
(***************************************************************************)
C5_SetThenGetReturnsNewNode ==
    (op = "set" /\ out = "return" /\ newItem.id = key)
        => /\ GetAfter.out = "return"
           /\ GetAfter.ret = newItem
           /\ GetAfter.ret.oid = newItem.oid

\* newNode, which holds a carrier of k itself, took the place of the first
\* of several carriers.
C5_Witness ==
    /\ op = "set"
    /\ out = "return"
    /\ newItem.id = key
    /\ Carriers(newItem, key) # {}
    /\ Cardinality(Carriers(pre, key)) >= 2
    /\ GetAfter.ret = newItem

(***************************************************************************)
(* C6 as stated: after a tree[k] = newNode that succeeded, with newNode.id *)
(* different from k, tree[k] raises KeyError.                              *)
(***************************************************************************)
C6_SetOtherIdThenGetFails ==
    (op = "set" /\ out = "return" /\ newItem.id # key)
        => GetAfter.out = "KeyError"

(***************************************************************************)
(* C6 as amended: when exactly one descendant Component of the tree        *)
(* carries k and no descendant of newNode carries k, after a               *)
(* tree[k] = newNode that succeeded, with newNode.id different from k,     *)
(* tree[k] raises KeyError.                                                *)
(***************************************************************************)
C6_SetOtherIdThenGetFailsWhenUnique ==
    (/\ op = "set"
     /\ out = "return"
     /\ newItem.id # key
     /\ Cardinality(Carriers(pre, key)) = 1
     /\ Carriers(newItem, key) = {})
        => GetAfter.out = "KeyError"

\* The only carrier made way for a newNode with another id and children of
\* its own.
C6_Witness ==
    /\ op = "set"
    /\ out = "return"
    /\ newItem.id # key
    /\ newItem.children # Absent
    /\ Cardinality(Carriers(pre, key)) = 1
    /\ Carriers(newItem, key) = {}
    /\ GetAfter.out = "KeyError"

(***************************************************************************)
(* C7: when descendants carry k, get, set and delete all act on the first  *)
(* carrier in traverse() order: get returns it; set puts newNode in its    *)
(* place and delete removes it, or, when it is an entry of a tuple, fails  *)
(* on it; nothing else of the tree, the other carriers included, changes.  *)
(***************************************************************************)
C7_FirstCarrierWins ==
    (op \in Ops /\ Carriers(pre, key) # {})
        => LET n == FirstCarrier(pre, key)
               p == PathOf(pre, n)
               refused == /\ out = "TypeError"
                          /\ SlotAt(pre, p).kind = "tuple"
                          /\ tree = pre
           IN  /\ op = "get" =>
                     out = "return" /\ ret = Traverse(pre)[n] /\ tree = pre
               /\ op = "set" =>
                     \/ out = "return" /\ tree = ReplaceAt(pre, p, newItem)
                     \/ refused
               /\ op = "delete" =>
                     \/ out = "return" /\ tree = RemoveAt(pre, p)
                     \/ refused

\* Of two carriers the first in traverse() order lies deeper than the
\* second, and the call changed the tree.
C7_Witness ==
    /\ op \in {"set", "delete"}
    /\ out = "return"
    /\ Cardinality(Carriers(pre, key)) = 2
    /\ \E m \in Carriers(pre, key) :
           Len(PathOf(pre, m)) < Len(PathOf(pre, FirstCarrier(pre, key)))

(***************************************************************************)
(* C8: a set that succeeded changed exactly one slot: the slot or the      *)
(* sequence entry that held the matched Component holds newNode, as it was *)
(* handed in; the sequence kept its length and its other entries, and      *)
(* every other Component its id and children.                              *)
(***************************************************************************)
C8_SetChangesOneSlot ==
    (op = "set" /\ out = "return")
        => \E n \in Carriers(pre, key) :
               LET p == PathOf(pre, n)
                   j == p[Len(p)].idx + 1
                   before == SlotAt(pre, p)
                   after == SlotAt(tree, p)
               IN  /\ tree = ReplaceAt(pre, p, newItem)
                   /\ after.kind = before.kind
                   /\ Len(after.items) = Len(before.items)
                   /\ after.items[j] = newItem
                   /\ \A m \in 1..Len(before.items) :
                          m # j => after.items[m] = before.items[m]

\* newNode, which holds a carrier of k, went into a sequence of several
\* entries one level below the root's.
C8_Witness ==
    /\ op = "set"
    /\ out = "return"
    /\ Carriers(newItem, key) # {}
    /\ LET p == PathOf(pre, FirstCarrier(pre, key)) IN
           /\ Len(p) = 2
           /\ Len(SlotAt(pre, p).items) >= 2

(***************************************************************************)
(* C9: a delete that succeeded: a matched single-Component children became *)
(* None; a matched entry i of a sequence left it, the sequence shrank by   *)
(* one, the entries before i stayed and those after i moved down by one in *)
(* their order; nothing else of the tree changed.                          *)
(***************************************************************************)
C9_DeleteRemovesOneEntry ==
    (op = "delete" /\ out = "return")
        => \E n \in Carriers(pre, key) :
               LET p == PathOf(pre, n)
                   j == p[Len(p)].idx + 1
                   before == SlotAt(pre, p)
                   after == SlotAt(tree, p)
               IN  /\ tree = RemoveAt(pre, p)
                   /\ before.kind = "Component" => after = Absent
                   /\ IsSeqLike(before) =>
                          /\ after.kind = before.kind
                          /\ Len(after.items) = Len(before.items) - 1
                          /\ \A m \in 1..Len(after.items) :
                                 after.items[m] =
                                     IF m < j THEN before.items[m]
                                     ELSE before.items[m + 1]

\* An entry that was not the last of three left its sequence.
C9_Witness ==
    /\ op = "delete"
    /\ out = "return"
    /\ LET p == PathOf(pre, FirstCarrier(pre, key)) IN
           /\ Len(SlotAt(pre, p).items) = 3
           /\ p[Len(p)].idx < 2
           /\ Len(SlotAt(tree, p).items) = 2

(***************************************************************************)
(* C10: the Component a call is made on is never matched itself: when the  *)
(* root carries id r and no descendant does, get, set and delete of r      *)
(* raise KeyError and leave the root as it was.                            *)
(***************************************************************************)
C10_RootIsNeverMatched ==
    (op \in Ops /\ pre.id = key /\ Carriers(pre, key) = {})
        => out = "KeyError" /\ tree = pre

\* A get of the root's own id, on a root with descendants.
C10_Witness ==
    /\ op = "get"
    /\ pre.id = key
    /\ Carriers(pre, key) = {}
    /\ Len(Traverse(pre)) >= 2
    /\ out = "KeyError"

(***************************************************************************)
(* What the properties of traverse(), iter() and len() speak of: every     *)
(* Component and scalar that sits in a children slot below a root, the     *)
(* entries of a slot from left to right and an entry before what is below  *)
(* it.  (A slot that holds one scalar holds that one entry.)               *)
(***************************************************************************)
RECURSIVE Reachable(_)
RECURSIVE ReachableFrom(_, _)

ReachableFrom(items, n) ==
    IF n > Len(items) THEN <<>>
    ELSE <<items[n]>> \o Reachable(items[n]) \o ReachableFrom(items, n + 1)

Reachable(x) ==
    IF IsComponent(x) THEN ReachableFrom(x.children.items, 1) ELSE <<>>

Range(s) == {s[k] : k \in 1..Len(s)}

CarriesId(x) == IsComponent(x) /\ x.id # NoId

\* The ids of the Components of a sequence of items, in its order.
IdsOf(s) ==
    LET carrying == SelectSeq(s, CarriesId)
    IN  [k \in 1..Len(carrying) |-> carrying[k].id]

\* No id is carried by two descendants of the root.
UniqueIds(root) ==
    LET ids == IdsOf(Reachable(root))
    IN  \A m, n \in 1..Len(ids) : ids[m] = ids[n] => m = n

(***************************************************************************)
(* C11: traverse() yields every Node and every scalar reachable from the   *)
(* root through children slots, each occurrence once, depth first in       *)
(* pre-order, the entries of a slot left to right and a parent before its  *)
(* descendants, and never the root.                                        *)
(***************************************************************************)
C11_TraverseYieldsEveryReachable ==
    op = "traverse" => val = Reachable(pre)

(***************************************************************************)
(* C12: iter() yields the ids of the traversed Components that have an id, *)
(* in traverse() order; scalars and Components without an id yield         *)
(* nothing, and the call does not fail.                                    *)
(***************************************************************************)
C12_IterYieldsIdsInTraverseOrder ==
    op = "iter"
        => /\ out = "return"
           /\ val = IdsOf(Reachable(pre))
           /\ val = IdsOf(Traverse(pre))
           /\ \A k \in 1..Len(val) : val[k] # NoId

\* A tree that holds a scalar, a Component without an id and a Component
\* with one.
C12_Witness ==
    /\ op = "iter"
    /\ val # <<>>
    /\ \E x \in Range(Traverse(pre)) : ~IsComponent(x)
    /\ \E x \in Range(Traverse(pre)) : IsComponent(x) /\ x.id = NoId

(***************************************************************************)
(* C13: len() is 0 when children is absent, 1 when it is one scalar, 1 +   *)
(* len(child) when it is one Component, and for a sequence 1 for each      *)
(* entry plus len(entry) for the entries that are Components: every Node   *)
(* or scalar entry of any children slot of the tree is counted once.       *)
(***************************************************************************)
C13_LenCountsEveryEntryOnce ==
    op = "len"
        => /\ val = Len(Reachable(pre))
           /\ pre.children.kind = "NoneType" => val = 0
           /\ pre.children.kind = "str" => val = 1
           /\ pre.children.kind = "Component"
                  => val = 1 + Len(Reachable(pre.children.items[1]))
           /\ IsSeqLike(pre.children)
                  => val = Len(ReachableFrom(pre.children.items, 1))

\* A sequence with a scalar entry and a Component entry that has children.
C13_Witness ==
    /\ op = "len"
    /\ IsSeqLike(pre.children)
    /\ \E x \in Range(pre.children.items) : ~IsComponent(x)
    /\ \E x \in Range(pre.children.items) : IsComponent(x) /\ LenOf(x) > 0
    /\ val >= 3

(***************************************************************************)
(* C14: for Root(children=[A(id='a'), 'text', B(id='b',                    *)
(* children=[C(id='c')])]), len(root) is 5.                                *)
(***************************************************************************)
C14_ScenarioLenIsFive ==
    (op = "len" /\ pre = Scenario) => val = 5

\* C14, amended: len(root) is 4 (A, 'text', B and C).
C14_ScenarioLenIsFour ==
    (op = "len" /\ pre = Scenario) => val = 4

C14_Witness ==
    /\ op = "len"
    /\ pre = Scenario
    /\ Len(Traverse(pre)) = 4

(***************************************************************************)
(* C15: in a tree with unique ids, after delete(b) every id carried by b   *)
(* or by a descendant of b fails get with KeyError and is not among        *)
(* iter(tree); the ids outside b's subtree are still found, and iter       *)
(* yields them in the order it did.                                        *)
(***************************************************************************)
C15_DeleteRemovesSubtreeIds ==
    (op = "delete" /\ out = "return" /\ UniqueIds(pre))
        => LET b == Traverse(pre)[FirstCarrier(pre, key)]
               gone == {b.id} \cup Range(Iter(b))
               Kept(k) == k \notin gone
           IN  /\ \A k \in gone :
                      /\ GetSetOrDelete(tree, k, "get", NoneItem).out = "KeyError"
                      /\ k \notin Range(Iter(tree))
               /\ Iter(tree) = SelectSeq(Iter(pre), Kept)
               /\ \A k \in Range(Iter(pre)) \ gone :
                      LET before == GetSetOrDelete(pre, k, "get", NoneItem)
                          after == GetSetOrDelete(tree, k, "get", NoneItem)
                      IN  /\ after.out = "return"
                          /\ after.ret.oid = before.ret.oid

\* The documented case: after del root['b'], root['c'] fails and list(root)
\* is ['a'].
C15_Witness ==
    /\ op = "delete"
    /\ out = "return"
    /\ pre = Scenario
    /\ key = "b"
    /\ GetSetOrDelete(pre, "c", "get", NoneItem).out = "return"
    /\ GetSetOrDelete(tree, "c", "get", NoneItem).out = "KeyError"
    /\ Iter(tree) = <<"a">>

(***************************************************************************)
(* C16: get(k) leaves the tree as it was, and a second get(k) right after  *)
(* it ends as the first did: it returns the same object, or raises         *)
(* KeyError both times.                                                    *)
(***************************************************************************)
C16_GetIsReadOnlyAndRepeatable ==
    op = "get"
        => /\ tree = pre
           /\ GetAfter.node = tree
           /\ GetAfter.out = out
           /\ GetAfter.ret = ret
           /\ GetAfter.ret.oid = ret.oid

\* A get that returns the single child of a Component below the root.
C16_Witness ==
    /\ op = "get"
    /\ out = "return"
    /\ \E x \in Range(Traverse(pre)) :
           /\ IsComponent(x)
           /\ x.children.kind = "Component"
           /\ x.children.items[1].oid = ret.oid

(***************************************************************************)
(* C17: to_plotly_json() returns a mapping with the three keys props, type *)
(* and namespace; props holds the declared properties that are set on the  *)
(* node and the set attributes whose name starts with a wildcard prefix,   *)
(* each with its value, and nothing else (a declared property that is     *)
(* absent or undefined is left out); type and namespace are the node's.    *)
(***************************************************************************)
\* The declared property p is set on the node.
IsSetOn(self, p) == p \in DOMAIN self.dict /\ self.dict[p] # Undefined

C17_JsonHoldsWhatIsSet ==
    op = "to_plotly_json"
        => LET declared == {pre._prop_names[n] : n \in 1..Len(pre._prop_names)}
               wildcard == {k \in DOMAIN pre.dict :
                                \E w \in {"data-", "aria-"} :
                                    /\ \E n \in 1..Len(pre._valid_wildcard_attributes) :
                                           pre._valid_wildcard_attributes[n] = w
                                    /\ StartsWith(k, w)}
           IN  /\ DOMAIN val = {"props", "type", "namespace"}
               /\ DOMAIN val.props
                      = {p \in declared : IsSetOn(pre, p)} \cup wildcard
               /\ \A k \in DOMAIN val.props : val.props[k] = pre.dict[k]
               /\ val.type = pre._type
               /\ val.namespace = pre._namespace

(***************************************************************************)
(* C18: to_plotly_json() is shallow and changes nothing: a Component that  *)
(* is the value of children or of another property is in props as that     *)
(* same object, not as a mapping, and the node and all below it are as     *)
(* they were.                                                              *)
(***************************************************************************)
C18_JsonIsShallow ==
    op = "to_plotly_json"
        => /\ tree = pre
           /\ \A k \in DOMAIN val.props \cap DOMAIN pre.dict :
                  IsComponent(pre.dict[k])
                      => /\ IsComponent(val.props[k])
                         /\ val.props[k].oid = pre.dict[k].oid
                         /\ val.props[k] = pre.dict[k]

\* A Component that has a child is the value of children and of a wildcard
\* attribute, and both are in props.
C18_Witness ==
    /\ op = "to_plotly_json"
    /\ {"children", "data-x"} \subseteq DOMAIN val.props
    /\ pre.dict["children"] = Nested
    /\ pre.dict["data-x"] = Nested
    /\ Nested.children.kind = "Component"

(***************************************************************************)
(* C19: get_inferred_resources() takes the resource list of a namespace    *)
(* at most once, however many Nodes of the layout (the root among them)    *)
(* have that namespace, and every entry it returns carries a 'namespace'   *)
(* tag that is the namespace of the Node it was collected from.            *)
(***************************************************************************)
\* The Components of the layout: the root, then its descendants in
\* traverse() order.
ComponentsOf(root) == SelectSeq(<<root>> \o Traverse(root), IsComponent)

C19_OneListPerNamespace ==
    op \in {"get_inferred_scripts", "get_inferred_css_dist"}
        => LET nodes == ComponentsOf(pre)
               \* the first Component of its namespace
               First(n) == \A m \in 1..(n - 1) :
                               nodes[m]._namespace # nodes[n]._namespace
               OfNamespace(ns) ==
                   LET Is(r) == dicts[r] = ns IN SelectSeq(val, Is)
           IN  /\ \A i, j \in 1..Len(val) : val[i] = val[j] => i = j
               /\ \A ns \in {nodes[n]._namespace : n \in 1..Len(nodes)} :
                      \/ OfNamespace(ns) = <<>>
                      \/ \E n \in 1..Len(nodes) :
                             /\ First(n)
                             /\ nodes[n]._namespace = ns
                             /\ key \in DOMAIN nodes[n].attrs
                             /\ OfNamespace(ns) = nodes[n].attrs[key]
               /\ \A i \in 1..Len(val) :
                      \E n \in 1..Len(nodes) :
                          /\ First(n)
                          /\ key \in DOMAIN nodes[n].attrs
                          /\ \E k \in 1..Len(nodes[n].attrs[key]) :
                                 nodes[n].attrs[key][k] = val[i]
                          /\ dicts[val[i]] = nodes[n]._namespace
               /\ tree = pre

\* The root and a descendant have one namespace, another descendant has
\* the other, and both namespaces give resources.
C19_Witness ==
    /\ op = "get_inferred_scripts"
    /\ val = <<1, 2, 4>>
    /\ dicts[1] = "html" /\ dicts[4] = "dcc"
    /\ pre._namespace = "html"
    /\ \E n \in 2..Len(ComponentsOf(pre)) :
           /\ ComponentsOf(pre)[n]._namespace = "html"
           /\ "_js_dist" \in DOMAIN ComponentsOf(pre)[n].attrs

(***************************************************************************)
(* C20: when get, set or delete reaches a node whose children is not one   *)
(* of the four permitted shapes, the call fails with an error that is not  *)
(* the error of an id that is not found, and that error reaches the        *)
(* caller: the descent does not catch it and go on with the next sibling.  *)
(* A node whose children is absent or a scalar does not produce it.        *)
(***************************************************************************)
\* The nodes a search for k calls _get_set_or_delete on: the root and every
\* Component before the first carrier of k in traverse() order.
Visited(root, k) ==
    LET t == Traverse(root)
        upto == IF Carriers(root, k) = {} THEN Len(t) ELSE FirstCarrier(root, k) - 1
    IN  {root} \cup {t[n] : n \in {m \in 1..upto : IsComponent(t[m])}}

C20_UnsupportedChildrenFailsApart ==
    op \in Ops
        => /\ (\E x \in Visited(pre, key) : x.children.kind = "dict")
                  => out \notin {"return", "KeyError"}
           /\ pre.children.kind \in {"NoneType", "str"} => out = "KeyError"

\* x with None wherever children is a dict.
RECURSIVE WithoutDicts(_)
WithoutDicts(x) ==
    IF ~IsComponent(x) THEN x
    ELSE IF x.children.kind = "dict" THEN [x EXCEPT !.children = Absent]
    ELSE [x EXCEPT !.children.items =
              [i \in 1..Len(x.children.items) |-> WithoutDicts(x.children.items[i])]]

\* C20, amended: a node whose children is of a type not provided for is
\* searched as a node without children is.  The call made on it raises
\* KeyError, the exception of an id that is not found, as it does for
\* children that is absent or a scalar; below the root that KeyError is
\* caught and the search goes on with the next sibling, so the call ends
\* as it ends on the tree without those values.
C20_UnsupportedChildrenIsKeyError ==
    op \in Ops
        => LET leafed == GetSetOrDelete(WithoutDicts(pre), key, op, newItem) IN
           /\ pre.children.kind \in {"dict", "NoneType", "str"}
                  => out = "KeyError" /\ tree = pre
           /\ out = leafed.out
           /\ WithoutDicts(ret) = leafed.ret
           /\ ret.oid = leafed.ret.oid
           /\ WithoutDicts(tree) = leafed.node
           /\ out \in {"return", "KeyError", "TypeError"}

\* A get that returns a Component found after a sibling whose children is a
\* dict.
C20_Witness ==
    /\ op = "get"
    /\ out = "return"
    /\ \E x \in Visited(pre, key) : x # pre /\ x.children.kind = "dict"

(***************************************************************************)
(* C21: on every tree, get, set, delete, a traverse() or                   *)
(* traverse_with_paths() consumed to its end, iter and len terminate:      *)
(* each returns its result or fails with an error, and the calls nested    *)
(* at any time are no more than the tree is deep.                          *)
(***************************************************************************)
\* The Components on the longest way down from x, x among them.
RECURSIVE Height(_)
Height(x) ==
    IF ~IsComponent(x) THEN 0
    ELSE LET below == {Height(x.children.items[i]) : i \in 1..Len(x.children.items)}
         IN  1 + (IF below = {} THEN 0 ELSE CHOOSE h \in below : \A g \in below : g <= h)

\* The call that was made has ended.
Ended == op # "init" /\ stack = <<>>

\* It ended as the function, taken as a whole, ends.
EndedAsItShould ==
    /\ op \in Ops =>
           LET r == GetSetOrDelete(pre, key, op, newItem) IN
           out = r.out /\ tree = r.node /\ ret = r.ret
    /\ op = "traverse" => out = "return" /\ val = Traverse(pre) /\ tree = pre
    /\ op = "iter" => out = "return" /\ val = Iter(pre) /\ tree = pre
    /\ op = "len" => out = "return" /\ val = <<LenOf(pre)>> /\ tree = pre

C21_EveryCallTerminates ==
    /\ [](Len(stack) <= Height(pre))
    /\ [](Ended => EndedAsItShould)
    /\ [](op # "init" => <>Ended)

\* A delete that has gone three Components deep.
C21_Witness ==
    /\ op = "delete"
    /\ Len(stack) = 3

(***************************************************************************)
(* C22: traverse_with_paths() yields the items traverse() yields, in the   *)
(* same order, and the path that comes with an item has one level for each *)
(* level of the tree from the children of the root down to the item: a     *)
(* level is marked [*] for a single Component child and [i], i counted     *)
(* from 0, for entry i of a sequence; the path of a descendant starts with *)
(* the path of its parent.                                                 *)
(***************************************************************************)
\* Going down from x by the markers of path p ends at item.
RECURSIVE LeadsTo(_, _, _)
LeadsTo(x, p, item) ==
    /\ IsComponent(x)
    /\ p # <<>>
    /\ LET l == Head(p)
           fits == IF l.star THEN x.children.kind = "Component" /\ l.idx = 0
                   ELSE IsSeqLike(x.children) /\ l.idx + 1 \in 1..Len(x.children.items)
       IN  /\ fits
           /\ LET y == x.children.items[l.idx + 1] IN
              /\ l.type = y.tag
              /\ l.id = y.id
              /\ IF Len(p) = 1 THEN y = item ELSE LeadsTo(y, Tail(p), item)

C22_PathsFollowTheTree ==
    op = "traverse_with_paths"
        => /\ [k \in 1..Len(val) |-> val[k].item] = Traverse(pre)
           /\ Len(val) = Len(Traverse(pre))
           /\ \A k \in 1..Len(val) :
                  /\ LeadsTo(pre, val[k].path, val[k].item)
                  /\ Len(val[k].path) > 1
                         => \E j \in 1..(k - 1) :
                                /\ val[j].path = SubSeq(val[k].path, 1, Len(val[k].path) - 1)
                                /\ IsComponent(val[j].item)
           /\ \A j, k \in 1..Len(val) : val[j].path = val[k].path => j = k
           /\ tree = pre

\* An item two levels down: the single Component child of entry 1 of a
\* sequence.
C22_Witness ==
    /\ op = "traverse_with_paths"
    /\ \E k \in 1..Len(val) :
           /\ Len(val[k].path) = 2
           /\ ~val[k].path[1].star /\ val[k].path[1].idx = 1
           /\ val[k].path[2].star

(***************************************************************************)
(* C23: get_inferred_resources() looks at the root first and then at the   *)
(* items of root.traverse() in order, scalars left aside.  A namespace is  *)
(* seen from the first Component that has it, with or without the resource *)
(* attribute, so only that Component can contribute (a later one of the    *)
(* same namespace never does, even when the first had no resource list),   *)
(* and the entries returned are in the order in which their namespaces     *)
(* were first met.                                                         *)
(***************************************************************************)
\* The lists of the Components n, n + 1, ... of nodes that are the first of
\* their namespace and have the attribute, one after the other.
RECURSIVE FirstLists(_, _, _)
FirstLists(nodes, n, name) ==
    IF n > Len(nodes) THEN <<>>
    ELSE (IF /\ \A m \in 1..(n - 1) : nodes[m]._namespace # nodes[n]._namespace
             /\ name \in DOMAIN nodes[n].attrs
          THEN nodes[n].attrs[name] ELSE <<>>)
             \o FirstLists(nodes, n + 1, name)

C23_FirstOfNamespaceInOrder ==
    op \in {"get_inferred_scripts", "get_inferred_css_dist"}
        => LET nodes == SelectSeq(<<pre>> \o Reachable(pre), IsComponent) IN
           /\ val = FirstLists(nodes, 1, key)
           /\ \A n \in 1..Len(nodes) :
                  (\E m \in 1..(n - 1) : nodes[m]._namespace = nodes[n]._namespace)
                      => \A i \in 1..Len(val) :
                             \/ key \notin DOMAIN nodes[n].attrs
                             \/ \A k \in 1..Len(nodes[n].attrs[key]) :
                                    nodes[n].attrs[key][k] # val[i]
                             \/ \E m \in 1..(n - 1) :
                                    /\ nodes[m]._namespace = nodes[n]._namespace
                                    /\ \A l \in 1..(m - 1) :
                                           nodes[l]._namespace # nodes[m]._namespace
                                    /\ key \in DOMAIN nodes[m].attrs
                                    /\ \E k \in 1..Len(nodes[m].attrs[key]) :
                                           nodes[m].attrs[key][k] = val[i]

\* The root, of namespace html, has no _js_dist; a descendant of namespace
\* html has one, and so has a Component of namespace dcc after it: only
\* the resources of dcc are returned.
C23_Witness ==
    /\ op = "get_inferred_scripts"
    /\ pre._namespace = "html"
    /\ "_js_dist" \notin DOMAIN pre.attrs
    /\ \E x \in Range(Traverse(pre)) :
           IsComponent(x) /\ x._namespace = "html" /\ "_js_dist" \in DOMAIN x.attrs
    /\ val = <<4>>

(***************************************************************************)
(* C24: len(tree) is the number of items tree.traverse() yields, for every *)
(* tree, a Component whose children is a single scalar included; so        *)
(* iter(tree) never yields more ids than len(tree).                        *)
(***************************************************************************)
C24_LenIsTheNumberTraversed ==
    op = "len"
        => /\ val = Len(Traverse(pre))
           /\ Len(Iter(pre)) <= val

(***************************************************************************)
(* C25: when the first match for k is an entry of a tuple, get(k) returns  *)
(* it, and set(k, x) and delete(k) fail with TypeError, which is not the   *)
(* KeyError of an id not found; no level above catches it as it catches    *)
(* KeyError, so it reaches the caller, no later sibling or later carrier   *)
(* of k is tried, and the tree is as it was.                               *)
(***************************************************************************)
C25_TupleRejectsSetAndDelete ==
    (/\ op \in Ops
     /\ Carriers(pre, key) # {}
     /\ SlotAt(pre, PathOf(pre, FirstCarrier(pre, key))).kind = "tuple")
        => /\ op = "get" => /\ out = "return"
                            /\ ret = Traverse(pre)[FirstCarrier(pre, key)]
                            /\ ret.oid = Traverse(pre)[FirstCarrier(pre, key)].oid
           /\ op # "get" => out = "TypeError"
           /\ tree = pre

\* A set whose match is in the tuple of a Component that is itself an entry
\* of a list: the loop over the list does not catch the TypeError.
C25_Witness ==
    /\ op = "set"
    /\ out = "TypeError"
    /\ pre.children.kind = "list"
    /\ Carriers(pre, key) # {}
    /\ Len(PathOf(pre, FirstCarrier(pre, key))) = 2
    /\ SlotAt(pre, PathOf(pre, FirstCarrier(pre, key))).kind = "tuple"

(***************************************************************************)
(* C26: get_resources(name) returns the lists of name of the modules that  *)
(* are in the registry when it is computed, one after the other (a module  *)
(* without the attribute gives nothing).  Once a call has returned a list  *)
(* for name that is not empty, every later call for name returns that same *)
(* list, whatever modules have been registered since; while the list kept  *)
(* is empty each call computes anew from the registry as it is.  The       *)
(* registry only grows.                                                    *)
(***************************************************************************)
\* The step is a call of get_resources.
IsGetResources ==
    op' = "get_resources" /\ registry' = registry /\ val' # <<>>

C26_GetResourcesCachesWhatIsNotEmpty ==
    [][/\ registry \subseteq registry'
       /\ \A n \in ResourceNames :
              (cache[n] # 0 /\ dicts[cache[n]] # <<>>)
                  => /\ cache'[n] = cache[n]
                     /\ dicts'[cache[n]] = dicts[cache[n]]
       /\ IsGetResources
              => LET had == cache[key'] # 0 /\ dicts[cache[key']] # <<>>
                     got == val'[1]
                 IN  /\ cache'[key'] = got
                     /\ had => got = cache[key'] /\ dicts' = dicts
                     /\ ~had => /\ got = Len(dicts) + 1
                                /\ SubSeq(dicts', 1, Len(dicts)) = dicts
                                /\ \E order \in Orders(registry) :
                                       dicts'[got] = Extended(order, 1, key')
      ]_vars

\* A list that is not empty is returned again after a module that has the
\* attribute was registered: the list does not hold that module's entries.
C26_Witness ==
    /\ op = "get_resources"
    /\ key = "_js_dist"
    /\ dicts[val[1]] = <<"html.js">>
    /\ "dash_core_components" \in registry
    /\ Len(dicts) >= 2
====
